---- MODULE Spec2Model ----
(***************************************************************************)
(* Model of src/motor.py: a motorised door driven by a periodic schedule   *)
(* tick (Door.run, main thread) and by three gpiozero callbacks (button,   *)
(* upper limit sensor, lower limit sensor) delivered on the callback       *)
(* thread.  Time is counted in whole seconds.                              *)
(***************************************************************************)
EXTENDS Integers, Sequences, FiniteSets, TLC

(* ------------------------------ bounds -------------------------------- *)

\* the clock runs from 0 to MaxClock seconds
MaxClock == 12

\* the clock of the statement-by-statement specification runs to MaxStmtClock
MaxStmtClock == 3

(* ------------------------- program constants -------------------------- *)

DEFAULT_SLEEP == 10
OPENING_THRESHOLD == 2
CLOSING_THRESHOLD == 2

\* hour before which a sunrise is clamped (time(6,0,0,0,...)), and its minute of day
RISE_FLOOR_HOUR == 6

\* Python's None for the two start timestamps
None == -1

\* class State(Enum)
State ==
  {"opening", "opening_stopped", "open", "closing", "closing_stopped",
   "closed", "unknown", "error"}

\* schedule inputs of desired_state, in minutes of the day
RiseTimes == {330, 420}
SetTimes == {1200}
TimesOfDay == {300, 350, 400, 720, 1300}

\* inputs of the calls of desired_state made on their own: sunrises from 04:00
\* to 08:59, a sunset before, at and after the floor and two in the evening,
\* and times over the whole day, all in minutes of the day
SunriseInputs == {h * 60 + m : h \in 4..8, m \in {0, 30, 59}}
SunsetInputs == {300, 360, 400, 1020, 1290}
NowInputs == {h * 60 + m : h \in 0..23, m \in {0, 1, 30, 59}}

(* --------------------------- pure functions --------------------------- *)

\* blink(led, state): the (on, off) pattern in tenths of a second; the two
\* stopped states match no branch and leave the pattern as it was
blink(led, state) ==
  IF state \in {"opening", "closing"} THEN <<5, 1>>
  ELSE IF state \in {"open", "closed"} THEN <<1, 100>>
  ELSE IF state = "unknown" THEN <<10, 10>>
  ELSE IF state = "error" THEN <<1, 2>>
  ELSE led

\* desired_state without the 06:00 floor
desired_state_no_floor(rise, set, tod) ==
  IF tod > rise /\ tod < set THEN "open" ELSE "closed"

\* desired_state(): rise, set and tod are minutes of the day
desired_state(rise, set, tod) ==
  LET r == IF rise \div 60 < RISE_FLOOR_HOUR THEN RISE_FLOOR_HOUR * 60 ELSE rise
  IN  IF tod > r /\ tod < set THEN "open" ELSE "closed"

\* transition_state without the Error sink
transition_state_no_sink(actual, desired) ==
  IF actual = desired THEN actual
  ELSE IF desired = "open" THEN "opening"
  ELSE IF desired = "closed" THEN "closing"
  ELSE "ValueError"

\* transition_state that hands back any other desired value instead of raising
transition_state_direct(actual, desired) ==
  IF actual = "error" \/ actual = desired THEN actual
  ELSE IF desired = "open" THEN "opening"
  ELSE IF desired = "closed" THEN "closing"
  ELSE desired

\* transition_state(actual, desired); "ValueError" stands for the raise
transition_state(actual, desired) ==
  IF actual = "error" \/ actual = desired THEN actual
  ELSE IF desired = "open" THEN "opening"
  ELSE IF desired = "closed" THEN "closing"
  ELSE "ValueError"

\* toggle_state with open grouped with closed instead of with opening_stopped
toggle_state_open_stays(current) ==
  IF current = "unknown" \/ current = "error" THEN "open"
  ELSE IF current = "opening" THEN "opening_stopped"
  ELSE IF current = "opening_stopped" THEN "closed"
  ELSE IF current = "closing" THEN "closing_stopped"
  ELSE IF current = "closing_stopped" \/ current = "closed" \/ current = "open" THEN "open"
  ELSE "ValueError"

\* toggle_state(current); "ValueError" stands for the raise
toggle_state(current) ==
  IF current = "unknown" \/ current = "error" THEN "open"
  ELSE IF current = "opening" THEN "opening_stopped"
  ELSE IF current = "opening_stopped" \/ current = "open" THEN "closed"
  ELSE IF current = "closing" THEN "closing_stopped"
  ELSE IF current = "closing_stopped" \/ current = "closed" THEN "open"
  ELSE "ValueError"

is_moving(state) == state = "opening" \/ state = "closing"

(* ------------------------------- Motor -------------------------------- *)

\* Motor.set_state with the direction taken from the running flag
Motor_set_state_dir_running(state) ==
  LET running == state = "opening" \/ state = "closing"
      direction == running
  IN  [running |-> running, direction |-> direction,
       dir |-> direction /\ running, onoff |-> running]

\* Motor.set_state followed by Motor.__update: all four fields are rewritten
Motor_set_state(state) ==
  LET running == state = "opening" \/ state = "closing"
      direction == state = "opening"
  IN  [running |-> running, direction |-> direction,
       dir |-> direction /\ running, onoff |-> running]

(* -------------------------------- Door -------------------------------- *)

\* the Door object before __init__ has called __set_state (class attributes)
Door_class ==
  [state |-> "None", opening_started |-> None, closing_started |-> None,
   led |-> <<0, 0>>,
   motor |-> [running |-> FALSE, direction |-> FALSE, dir |-> FALSE, onoff |-> FALSE]]

\* a call's outcome: the object after it, the exception it raised, its return value
Result(self, exc, ret) == [self |-> self, exc |-> exc, ret |-> ret]

\* the state-change path of __set_state with opening_started never cleared
set_state_change_keep(self, state, t) ==
  [self EXCEPT
     !.opening_started = IF state = "opening" THEN t ELSE @,
     !.closing_started = IF state = "closing" THEN t ELSE None,
     !.state = state,
     !.led = blink(self.led, state),
     !.motor = Motor_set_state(state)]

\* the state-change path of __set_state (lines 166-181)
set_state_change(self, state, t) ==
  [self EXCEPT
     !.opening_started = IF state = "opening" THEN t ELSE None,
     !.closing_started = IF state = "closing" THEN t ELSE None,
     !.state = state,
     !.led = blink(self.led, state),
     !.motor = Motor_set_state(state)]

RECURSIVE set_state(_, _, _, _, _)
RECURSIVE check_blocked(_, _, _, _)

\* Door.__check_blocked with >= in place of >
check_blocked_ge(self, t, up, lo) ==
  IF self.state = "opening" /\ lo
  THEN IF self.opening_started = None THEN Result(self, "TypeError", None)
       ELSE IF t >= self.opening_started + OPENING_THRESHOLD
            THEN set_state(self, "error", t, up, lo)
            ELSE Result(self, "none", 0)
  ELSE IF self.state = "closing" /\ up
  THEN IF self.closing_started = None THEN Result(self, "TypeError", None)
       ELSE IF t >= self.closing_started + CLOSING_THRESHOLD
            THEN set_state(self, "error", t, up, lo)
            ELSE Result(self, "none", 0)
  ELSE Result(self, "none", 0)

\* Door.__check_blocked at time t with the sensor levels up and lo; adding a
\* timedelta to None raises TypeError
check_blocked(self, t, up, lo) ==
  IF self.state = "opening" /\ lo
  THEN IF self.opening_started = None THEN Result(self, "TypeError", None)
       ELSE IF t > self.opening_started + OPENING_THRESHOLD
            THEN set_state(self, "error", t, up, lo)
            ELSE Result(self, "none", 0)
  ELSE IF self.state = "closing" /\ up
  THEN IF self.closing_started = None THEN Result(self, "TypeError", None)
       ELSE IF t > self.closing_started + CLOSING_THRESHOLD
            THEN set_state(self, "error", t, up, lo)
            ELSE Result(self, "none", 0)
  ELSE Result(self, "none", 0)

\* Door.__set_state
set_state(self, state, t, up, lo) ==
  IF self.state = state
  THEN IF is_moving(state) THEN check_blocked(self, t, up, lo)
       ELSE Result(self, "none", DEFAULT_SLEEP)
  ELSE Result(set_state_change(self, state, t), "none", 0)

\* Door.__set_desired with an if in place of the while: one pass, then return
set_desired_step_once(self, desired, t, up, lo) ==
  IF self.state = desired THEN [self |-> self, exc |-> "none", done |-> TRUE]
  ELSE LET n == transition_state(self.state, desired)
       IN  IF n = "ValueError"
           THEN [self |-> self, exc |-> "ValueError", done |-> TRUE]
           ELSE LET r == set_state(self, n, t, up, lo)
                IN  [self |-> r.self, exc |-> r.exc, done |-> TRUE]

\* one iteration of the while loop of Door.__set_desired (lines 155-158): the
\* loop test, then __set_state(transition_state(...)) and the Error test.
\* done tells that the call has returned or raised
set_desired_step(self, desired, t, up, lo) ==
  IF self.state = desired THEN [self |-> self, exc |-> "none", done |-> TRUE]
  ELSE LET n == transition_state(self.state, desired)
       IN  IF n = "ValueError"
           THEN [self |-> self, exc |-> "ValueError", done |-> TRUE]
           ELSE LET r == set_state(self, n, t, up, lo)
                IN  [self |-> r.self, exc |-> r.exc,
                     done |-> r.exc # "none" \/ r.self.state = "error"]

\* Door.__set_open that leaves a latched Error alone
set_open_latched(self, t, up, lo) ==
  IF self.state = "closing"
  THEN Result(self, "NameError", None)
  ELSE IF self.state = "error"
  THEN Result(self, "none", None)
  ELSE Result(set_state(self, "open", t, up, lo).self, "none", None)

\* Door.__set_open: line 203 names CLOSING_THESHOLD, which is defined nowhere,
\* so evaluating the comparison raises NameError
set_open(self, t, up, lo) ==
  IF self.state = "closing"
  THEN Result(self, "NameError", None)
  ELSE Result(set_state(self, "open", t, up, lo).self, "none", None)

\* Door.__set_closed with >= in place of >
set_closed_ge(self, t, up, lo) ==
  IF self.state = "opening"
  THEN IF self.opening_started = None THEN Result(self, "TypeError", None)
       ELSE IF t >= self.opening_started + OPENING_THRESHOLD
            THEN Result(set_state(self, "error", t, up, lo).self, "none", None)
            ELSE Result(self, "none", None)
  ELSE Result(set_state(self, "closed", t, up, lo).self, "none", None)

\* Door.__set_closed
set_closed(self, t, up, lo) ==
  IF self.state = "opening"
  THEN IF self.opening_started = None THEN Result(self, "TypeError", None)
       ELSE IF t > self.opening_started + OPENING_THRESHOLD
            THEN Result(set_state(self, "error", t, up, lo).self, "none", None)
            ELSE Result(self, "none", None)
  ELSE Result(set_state(self, "closed", t, up, lo).self, "none", None)

(* ------------------------------- state -------------------------------- *)

VARIABLES
  door,          \* the Door object: state, opening_started, closing_started, led, motor
  upper, lower,  \* levels of the two limit sensors (is_pressed)
  now,           \* the clock, in seconds
  pending,       \* callbacks the pin factory has still to deliver
  tick_pc,       \* main thread: "sleep" in run, "loop" inside __set_desired
  tick_desired,  \* argument of the main thread's __set_desired while it loops
  wake,          \* the time at which the main thread's sleep ends
  cb_pc,         \* callback thread: "idle", or "loop" inside __toggle's __set_desired
  cb_desired,    \* argument of the callback thread's __set_desired while it loops
  last,          \* the operation that ran last
  arg,           \* the desired argument of that operation, if it was a loop iteration
  pre,           \* the Door object before that operation
  raised,        \* the exception that operation raised, or "none"
  call,          \* a call of a module-level function made on its own: fn, args, ret
  main_at,       \* main thread, statement by statement: the statement it is at
  cb_at          \* callback thread, statement by statement: the statement it is at

vars ==
  <<door, upper, lower, now, pending, tick_pc, tick_desired, wake,
    cb_pc, cb_desired, last, arg, pre, raised, call, main_at, cb_at>>

\* a thread between two statements of no interest: pc is the statement it is
\* at, st the argument of the __set_state call it is in, fn the method that
\* made that call
Idle == [pc |-> "idle", st |-> "None", fn |-> "None"]

\* no module-level function has been called on its own
NoCall == [fn |-> "none", args |-> <<>>, ret |-> "none"]

\* Door.__init__ that asks the lower sensor first
Init_lower_first ==
  /\ upper \in BOOLEAN
  /\ lower \in BOOLEAN
  /\ now = 0
  /\ LET s == IF lower THEN "closed" ELSE IF upper THEN "open" ELSE "unknown"
     IN  door = set_state(Door_class, s, now, upper, lower).self
  /\ pending = {}
  /\ tick_pc = "sleep"
  /\ tick_desired = "None"
  /\ wake = 0
  /\ cb_pc = "idle"
  /\ cb_desired = "None"
  /\ last = "init"
  /\ arg = "None"
  /\ pre = Door_class
  /\ raised = "none"
  /\ call = NoCall
  /\ main_at = Idle
  /\ cb_at = Idle

\* Door.__init__ (lines 139-145): the first state follows the sensors
Init ==
  /\ upper \in BOOLEAN
  /\ lower \in BOOLEAN
  /\ now = 0
  /\ LET s == IF upper THEN "open" ELSE IF lower THEN "closed" ELSE "unknown"
     IN  door = set_state(Door_class, s, now, upper, lower).self
  /\ pending = {}
  /\ tick_pc = "sleep"
  /\ tick_desired = "None"
  /\ wake = 0
  /\ cb_pc = "idle"
  /\ cb_desired = "None"
  /\ last = "init"
  /\ arg = "None"
  /\ pre = Door_class
  /\ raised = "none"
  /\ call = NoCall
  /\ main_at = Idle
  /\ cb_at = Idle

(* ---------------------------- environment ----------------------------- *)

env == /\ last' = "env" /\ arg' = "None" /\ pre' = door /\ raised' = "none"
       /\ UNCHANGED <<door, tick_pc, tick_desired, wake, cb_pc, cb_desired, call, main_at, cb_at>>

\* a second passes
Advance ==
  /\ now < MaxClock
  /\ now' = now + 1
  /\ env
  /\ UNCHANGED <<upper, lower, pending>>

\* the upper limit switch closes: upper.when_pressed is due
UpperPress ==
  /\ ~upper
  /\ upper' = TRUE
  /\ pending' = pending \cup {"upper"}
  /\ env
  /\ UNCHANGED <<lower, now>>

UpperRelease ==
  /\ upper
  /\ upper' = FALSE
  /\ env
  /\ UNCHANGED <<lower, now, pending>>

\* the lower limit switch closes: lower.when_pressed is due
LowerPress ==
  /\ ~lower
  /\ lower' = TRUE
  /\ pending' = pending \cup {"lower"}
  /\ env
  /\ UNCHANGED <<upper, now>>

LowerRelease ==
  /\ lower
  /\ lower' = FALSE
  /\ env
  /\ UNCHANGED <<upper, now, pending>>

\* the operating button is pressed: btn.when_pressed is due
BtnPress ==
  /\ "btn" \notin pending
  /\ pending' = pending \cup {"btn"}
  /\ env
  /\ UNCHANGED <<upper, lower, now>>

(* ---------------------------- main thread ----------------------------- *)

\* the main thread after one loop iteration with outcome r toward desired d
tick_after(r, d) ==
  /\ door' = r.self
  /\ raised' = r.exc
  /\ pre' = door
  /\ arg' = d
  /\ IF r.exc # "none"
     THEN tick_pc' = "crashed" /\ tick_desired' = "None" /\ wake' = wake
     ELSE IF r.done
     THEN tick_pc' = "sleep" /\ tick_desired' = "None" /\ wake' = now + DEFAULT_SLEEP
     ELSE tick_pc' = "loop" /\ tick_desired' = d /\ wake' = wake
  /\ UNCHANGED <<upper, lower, now, pending, cb_pc, cb_desired, call, main_at, cb_at>>

\* Door.run: the sleep is over; desired_state() is evaluated and __set_desired
\* runs its first iteration
run ==
  /\ tick_pc = "sleep"
  /\ now >= wake
  /\ \E rise \in RiseTimes, set \in SetTimes, tod \in TimesOfDay :
       LET d == desired_state(rise, set, tod)
       IN  tick_after(set_desired_step(door, d, now, upper, lower), d)
  /\ last' = "run"

\* a further iteration of __set_desired on the main thread
set_desired_tick ==
  /\ tick_pc = "loop"
  /\ tick_after(set_desired_step(door, tick_desired, now, upper, lower), tick_desired)
  /\ last' = "set_desired_tick"

(* -------------------------- callback thread --------------------------- *)

\* the callback thread after one loop iteration with outcome r toward desired d
cb_after(r, d) ==
  /\ door' = r.self
  /\ raised' = r.exc
  /\ pre' = door
  /\ arg' = d
  /\ IF r.done
     THEN cb_pc' = "idle" /\ cb_desired' = "None"
     ELSE cb_pc' = "loop" /\ cb_desired' = d
  /\ UNCHANGED <<upper, lower, now, tick_pc, tick_desired, wake, call, main_at, cb_at>>

\* Door.__toggle: toggle_state of the current state, then the first iteration
\* of __set_desired toward it
toggle ==
  /\ cb_pc = "idle"
  /\ "btn" \in pending
  /\ pending' = pending \ {"btn"}
  /\ LET d == toggle_state(door.state)
     IN  cb_after(set_desired_step(door, d, now, upper, lower), d)
  /\ last' = "toggle"

\* a further iteration of __set_desired on the callback thread
set_desired_toggle ==
  /\ cb_pc = "loop"
  /\ cb_after(set_desired_step(door, cb_desired, now, upper, lower), cb_desired)
  /\ last' = "set_desired_toggle"
  /\ UNCHANGED pending

\* the callback thread runs a sensor handler with outcome r
sensor_after(r) ==
  /\ door' = r.self
  /\ raised' = r.exc
  /\ pre' = door
  /\ arg' = "None"
  /\ UNCHANGED <<upper, lower, now, tick_pc, tick_desired, wake, cb_pc, cb_desired, call, main_at, cb_at>>

\* upper.when_pressed = __set_open
on_upper ==
  /\ cb_pc = "idle"
  /\ "upper" \in pending
  /\ pending' = pending \ {"upper"}
  /\ sensor_after(set_open(door, now, upper, lower))
  /\ last' = "set_open"

\* lower.when_pressed = __set_closed
on_lower ==
  /\ cb_pc = "idle"
  /\ "lower" \in pending
  /\ pending' = pending \ {"lower"}
  /\ sensor_after(set_closed(door, now, upper, lower))
  /\ last' = "set_closed"

(* --------------------------- specification ---------------------------- *)

Next ==
  \/ Advance
  \/ UpperPress
  \/ UpperRelease
  \/ LowerPress
  \/ LowerRelease
  \/ BtnPress
  \/ run
  \/ set_desired_tick
  \/ toggle
  \/ set_desired_toggle
  \/ on_upper
  \/ on_lower

Spec == Init /\ [][Next]_vars

\* Spec with every thread that can take a step taking one in the end: the
\* main thread's loop and sleep, the callback thread's loop, and the delivery
\* of a due callback once the callback thread is free
FairSpec ==
  /\ Spec
  /\ WF_vars(run)
  /\ WF_vars(set_desired_tick)
  /\ WF_vars(set_desired_toggle)
  /\ WF_vars(toggle)
  /\ WF_vars(on_upper)
  /\ WF_vars(on_lower)

TypeOK ==
  /\ door.state \in State
  /\ now \in 0..MaxClock
  /\ pending \subseteq {"btn", "upper", "lower"}
  /\ tick_pc \in {"sleep", "loop", "crashed"}
  /\ cb_pc \in {"idle", "loop"}

(* ------------------- the module-level functions alone ----------------- *)

\* the Door object and the threads, which a call of a pure function leaves alone
door_vars ==
  <<door, upper, lower, now, pending, tick_pc, tick_desired, wake,
    cb_pc, cb_desired, last, arg, pre, raised, main_at, cb_at>>

\* transition_state is called with any two states
call_transition_state ==
  /\ call = NoCall
  /\ \E actual \in State, desired \in State :
       call' = [fn |-> "transition_state", args |-> <<actual, desired>>,
                ret |-> transition_state(actual, desired)]
  /\ UNCHANGED door_vars

\* toggle_state is called with any state
call_toggle_state ==
  /\ call = NoCall
  /\ \E current \in State :
       call' = [fn |-> "toggle_state", args |-> <<current>>,
                ret |-> toggle_state(current)]
  /\ UNCHANGED door_vars

\* desired_state is called with any sunrise, sunset and time of day
call_desired_state ==
  /\ call = NoCall
  /\ \E rise \in SunriseInputs, set \in SunsetInputs, tod \in NowInputs :
       call' = [fn |-> "desired_state", args |-> <<rise, set, tod>>,
                ret |-> desired_state(rise, set, tod)]
  /\ UNCHANGED door_vars

NextPure ==
  \/ call_transition_state
  \/ call_toggle_state
  \/ call_desired_state

SpecPure == Init /\ [][NextPure]_vars

(* ------------------- the threads, statement by statement -------------- *)

\* the statements of __set_state's state-change path; the call of
\* Motor.set_state on line 179 is taken as one of them
ChangePath == {"opening_started", "closing_started", "state", "blink", "motor"}

\* the statements inside __set_state and the __check_blocked it calls
InSetState == {"if_same", "check"} \cup ChangePath

\* where a thread goes when its __set_state call returns: the Error test of
\* the __set_desired loop, or out of the sensor handler
after_set_state(f) ==
  IF f.fn = "set_desired" THEN [f EXCEPT !.pc = "if_error", !.st = "None"] ELSE Idle

\* a thread at frame f runs one statement at time t: the object and the frame
\* after it, and the exception raised, which ends the thread's call
stmt(self, f, desired, t, up, lo) ==
  LET go(pc) == [self |-> self, at |-> [f EXCEPT !.pc = pc], exc |-> "none"]
      call_set_state(st) ==
        [self |-> self, at |-> [f EXCEPT !.pc = "if_same", !.st = st], exc |-> "none"]
      write(new, pc) == [self |-> new, at |-> [f EXCEPT !.pc = pc], exc |-> "none"]
      return == [self |-> self, at |-> after_set_state(f), exc |-> "none"]
      leave == [self |-> self, at |-> Idle, exc |-> "none"]
      raise(x) == [self |-> self, at |-> Idle, exc |-> x]
  IN
  CASE f.pc = "while" ->                                     \* line 155
         IF self.state # desired THEN go("trans") ELSE leave
    [] f.pc = "trans" ->                                     \* line 156, the argument
         LET n == transition_state(self.state, desired)
         IN  IF n = "ValueError" THEN raise("ValueError") ELSE call_set_state(n)
    [] f.pc = "if_error" ->                                  \* lines 157-158
         IF self.state = "error" THEN leave ELSE go("while")
    [] f.pc = "if_same" ->                                   \* lines 161-164
         IF self.state = f.st
         THEN IF is_moving(f.st) THEN go("check") ELSE return
         ELSE go("opening_started")
    [] f.pc = "check" ->                                     \* lines 184-189
         IF self.state = "opening" /\ lo
         THEN IF self.opening_started = None THEN raise("TypeError")
              ELSE IF t > self.opening_started + OPENING_THRESHOLD
                   THEN call_set_state("error")
                   ELSE return
         ELSE IF self.state = "closing" /\ up
         THEN IF self.closing_started = None THEN raise("TypeError")
              ELSE IF t > self.closing_started + CLOSING_THRESHOLD
                   THEN call_set_state("error")
                   ELSE return
         ELSE return
    [] f.pc = "opening_started" ->                           \* lines 167-170
         write([self EXCEPT !.opening_started = IF f.st = "opening" THEN t ELSE None],
               "closing_started")
    [] f.pc = "closing_started" ->                           \* lines 171-174
         write([self EXCEPT !.closing_started = IF f.st = "closing" THEN t ELSE None],
               "state")
    [] f.pc = "state" ->                                     \* line 177
         write([self EXCEPT !.state = f.st], "blink")
    [] f.pc = "blink" ->                                     \* line 178
         write([self EXCEPT !.led = blink(self.led, f.st)], "motor")
    [] f.pc = "motor" ->                                     \* line 179, then return 0
         [self |-> [self EXCEPT !.motor = Motor_set_state(f.st)],
          at |-> after_set_state(f), exc |-> "none"]
    [] f.pc = "set_open" ->                                  \* line 202
         IF self.state = "closing" THEN go("set_open_grace") ELSE call_set_state("open")
    [] f.pc = "set_open_grace" ->                            \* line 203
         raise("NameError")
    [] f.pc = "set_closed" ->                                \* line 217
         IF self.state = "opening" THEN go("set_closed_grace")
         ELSE call_set_state("closed")
    [] f.pc = "set_closed_grace" ->                          \* lines 218-220
         IF self.opening_started = None THEN raise("TypeError")
         ELSE IF t > self.opening_started + OPENING_THRESHOLD
              THEN call_set_state("error")
              ELSE leave

\* a statement's effect on the object; a single statement is no operation and
\* no record of it is kept beyond the exception: last and pre are left as the
\* environment leaves them
ran(r) ==
  /\ door' = r.self
  /\ last' = "env"
  /\ arg' = "None"
  /\ pre' = r.self
  /\ raised' = r.exc

\* a second passes
StmtAdvance ==
  /\ now < MaxStmtClock
  /\ now' = now + 1
  /\ env
  /\ UNCHANGED <<upper, lower, pending>>

\* Door.run: the sleep is over, desired_state() is evaluated and __set_desired
\* is entered
run_call ==
  /\ tick_pc = "sleep"
  /\ now >= wake
  /\ \E rise \in RiseTimes, set \in SetTimes, tod \in TimesOfDay :
       tick_desired' = desired_state(rise, set, tod)
  /\ tick_pc' = "loop"
  /\ main_at' = [pc |-> "while", st |-> "None", fn |-> "set_desired"]
  /\ last' = "env" /\ arg' = "None" /\ pre' = door /\ raised' = "none"
  /\ UNCHANGED <<door, upper, lower, now, pending, wake, cb_pc, cb_desired, call, cb_at>>

\* the main thread runs its next statement
main_stmt ==
  /\ tick_pc = "loop"
  /\ LET r == stmt(door, main_at, tick_desired, now, upper, lower)
     IN  /\ ran(r)
         /\ main_at' = r.at
         /\ IF r.exc # "none"
            THEN tick_pc' = "crashed" /\ tick_desired' = "None" /\ wake' = wake
            ELSE IF r.at = Idle
            THEN tick_pc' = "sleep" /\ tick_desired' = "None"
                 /\ wake' = now + DEFAULT_SLEEP
            ELSE UNCHANGED <<tick_pc, tick_desired, wake>>
  /\ UNCHANGED <<upper, lower, now, pending, cb_pc, cb_desired, call, cb_at>>

\* the callback thread takes a due callback and enters its handler: __toggle
\* evaluates toggle_state and enters __set_desired
cb_enter(c, pc, fn, d) ==
  /\ cb_pc = "idle"
  /\ c \in pending
  /\ pending' = pending \ {c}
  /\ cb_pc' = "loop"
  /\ cb_desired' = d
  /\ cb_at' = [pc |-> pc, st |-> "None", fn |-> fn]
  /\ last' = "env" /\ arg' = "None" /\ pre' = door /\ raised' = "none"
  /\ UNCHANGED <<door, upper, lower, now, tick_pc, tick_desired, wake, call, main_at>>

toggle_call == cb_enter("btn", "while", "set_desired", toggle_state(door.state))

set_open_call == cb_enter("upper", "set_open", "set_open", "None")

set_closed_call == cb_enter("lower", "set_closed", "set_closed", "None")

\* the callback thread runs its next statement
cb_stmt ==
  /\ cb_pc = "loop"
  /\ LET r == stmt(door, cb_at, cb_desired, now, upper, lower)
     IN  /\ ran(r)
         /\ cb_at' = r.at
         /\ IF r.at = Idle
            THEN cb_pc' = "idle" /\ cb_desired' = "None"
            ELSE UNCHANGED <<cb_pc, cb_desired>>
  /\ UNCHANGED <<upper, lower, now, pending, tick_pc, tick_desired, wake, call, main_at>>

NextThreads ==
  \/ StmtAdvance
  \/ UpperPress
  \/ UpperRelease
  \/ LowerPress
  \/ LowerRelease
  \/ BtnPress
  \/ run_call
  \/ main_stmt
  \/ toggle_call
  \/ set_open_call
  \/ set_closed_call
  \/ cb_stmt

SpecThreads == Init /\ [][NextThreads]_vars

(* ------------------------------ claims -------------------------------- *)

\* the operations that run one iteration of the __set_desired loop
TickOps == {"run", "set_desired_tick"}
LoopOps == {"run", "set_desired_tick", "toggle", "set_desired_toggle"}

C2_StartedMatchesState ==
  /\ door.opening_started # None <=> door.state = "opening"
  /\ door.closing_started # None <=> door.state = "closing"
  /\ ~(door.opening_started # None /\ door.closing_started # None)

\* the door was closing and has been reversed to opening
C2_Witness ==
  /\ pre.state = "closing"
  /\ pre.closing_started # None
  /\ door.state = "opening"
  /\ door.opening_started # None
  /\ door.closing_started = None

\* C3: a tick's loop iteration that finds the state Error returns at once and
\* leaves the state, both start timestamps, the indicator and the motor
\* outputs as they were.
C3_TickLeavesError ==
  (last \in TickOps /\ pre.state = "error") =>
    /\ door = pre
    /\ raised = "none"
    /\ tick_pc = "sleep"

\* the schedule tick has run on a door in Error
C3_Witness ==
  /\ last = "run"
  /\ pre.state = "error"
  /\ door.state = "error"
  /\ tick_pc = "sleep"

\* C4 as stated: from Error, no tick, upper-sensor event or lower-sensor event
\* changes the state to anything other than Error.
C4_OnlyButtonExitsError ==
  (last \in TickOps \cup {"set_open", "set_closed"} /\ pre.state = "error") =>
    door.state = "error"

\* C4 as amended: from Error, no tick changes the state, an upper-sensor event
\* sets the state to open and a lower-sensor event sets it to closed.
C4_TickKeepsSensorsExitError ==
  pre.state = "error" =>
    /\ last \in TickOps => door.state = "error"
    /\ last = "set_open" => door.state = "open"
    /\ last = "set_closed" => door.state = "closed"

\* a sensor event has taken the door out of Error
C4_Witness ==
  /\ pre.state = "error"
  /\ last = "set_open"
  /\ door.state = "open"

\* C5 as stated: a button press while the state is Error sets the state to
\* opening with the motor running in the opening direction.
C5_PressExitsError ==
  (last = "toggle" /\ pre.state = "error") =>
    /\ arg = "open"
    /\ door.state = "opening"
    /\ door.motor.running
    /\ door.motor.direction

\* C6 as stated: a button press while opening leaves the state opening_stopped
\* and a press while closing leaves closing_stopped, motor idle, nothing raised.
C6_PressStopsMotion ==
  /\ (last = "toggle" /\ pre.state = "opening") =>
       door.state = "opening_stopped" /\ ~door.motor.running /\ raised = "none"
  /\ (last = "toggle" /\ pre.state = "closing") =>
       door.state = "closing_stopped" /\ ~door.motor.running /\ raised = "none"

\* C7 as stated: the upper-sensor handler run while closing completes normally;
\* it leaves the state closing when at most 2 s have passed since
\* closing_started and sets Error, motor idle, when more have passed.
C7_UpperWhileClosing ==
  (last = "set_open" /\ pre.state = "closing") =>
    /\ raised = "none"
    /\ IF now > pre.closing_started + CLOSING_THRESHOLD
       THEN door.state = "error" /\ ~door.motor.running
       ELSE door.state = "closing"

\* C8: the lower-sensor handler run while opening leaves the door as it was
\* when at most 2 s have passed since opening_started, and sets Error, motor
\* idle and opening_started cleared, when more have passed.
C8_LowerWhileOpening ==
  (last = "set_closed" /\ pre.state = "opening") =>
    /\ raised = "none"
    /\ IF now > pre.opening_started + OPENING_THRESHOLD
       THEN /\ door.state = "error"
            /\ ~door.motor.running
            /\ door.opening_started = None
       ELSE door = pre

\* the lower sensor has fired on a door that had been opening for over 2 s
C8_Witness ==
  /\ last = "set_closed"
  /\ pre.state = "opening"
  /\ now > pre.opening_started + OPENING_THRESHOLD
  /\ door.state = "error"

\* a Door object that __set_state has put into state s at time t
door_in(s, t) == set_state_change(Door_class, s, t)

\* C9: an upper-sensor event in any state but closing leaves the state open,
\* motor idle and both timestamps cleared, whatever the time; a lower-sensor
\* event in any state but opening leaves the state closed, motor idle.  The
\* last two conjuncts run the handlers on a door put into each of the eight
\* states at time 0 or just now.
C9_SensorForcesEndState ==
  /\ (last = "set_open" /\ pre.state # "closing") =>
       /\ door.state = "open"
       /\ ~door.motor.running
       /\ door.opening_started = None
       /\ door.closing_started = None
       /\ raised = "none"
  /\ (last = "set_closed" /\ pre.state # "opening") =>
       /\ door.state = "closed"
       /\ ~door.motor.running
       /\ raised = "none"
  /\ \A s \in State \ {"closing"}, t \in {0, now} :
       LET r == set_open(door_in(s, t), now, upper, lower)
       IN  /\ r.exc = "none"
           /\ r.self.state = "open"
           /\ ~r.self.motor.running
           /\ r.self.opening_started = None
           /\ r.self.closing_started = None
  /\ \A s \in State \ {"opening"}, t \in {0, now} :
       LET r == set_closed(door_in(s, t), now, upper, lower)
       IN  /\ r.exc = "none"
           /\ r.self.state = "closed"
           /\ ~r.self.motor.running

\* the upper sensor has fired on a door that had been opening for over 2 s
C9_Witness ==
  /\ last = "set_open"
  /\ pre.state = "opening"
  /\ now > pre.opening_started + OPENING_THRESHOLD
  /\ door.state = "open"
  /\ ~door.motor.running

\* C10: a loop iteration that re-applies opening at time t with the door
\* opening since t0 sets Error exactly when the lower sensor is asserted and
\* t > t0 + 2 s, and otherwise changes nothing; likewise for closing with the
\* upper sensor and closing_started.
C10_BlockedAfterThreshold ==
  /\ (last \in LoopOps /\ pre.state = "opening" /\ arg = "open") =>
       IF lower /\ now > pre.opening_started + OPENING_THRESHOLD
       THEN door.state = "error" /\ ~door.motor.running
       ELSE door = pre
  /\ (last \in LoopOps /\ pre.state = "closing" /\ arg = "closed") =>
       IF upper /\ now > pre.closing_started + CLOSING_THRESHOLD
       THEN door.state = "error" /\ ~door.motor.running
       ELSE door = pre

\* the blocked check has latched Error on the first iteration past t0 + 2 s
C10_Witness ==
  /\ last \in LoopOps
  /\ pre.state = "opening"
  /\ arg = "open"
  /\ lower
  /\ now = pre.opening_started + OPENING_THRESHOLD + 1
  /\ door.state = "error"

\* C11: over all pairs of the eight states, transition_state returns actual
\* when actual is error or equals desired, otherwise opening when desired is
\* open, otherwise closing when desired is closed, and raises ValueError for
\* every other desired value.
C11_TransitionTable ==
  call.fn = "transition_state" =>
    LET actual == call.args[1]
        desired == call.args[2]
    IN  /\ (actual = "error" \/ actual = desired) => call.ret = actual
        /\ (actual # "error" /\ actual # desired /\ desired = "open") =>
             call.ret = "opening"
        /\ (actual # "error" /\ actual # desired /\ desired = "closed") =>
             call.ret = "closing"
        /\ (actual # "error" /\ actual # desired /\ desired \notin {"open", "closed"}) =>
             call.ret = "ValueError"

\* transition_state has raised for a stopped target
C11_Witness ==
  /\ call.fn = "transition_state"
  /\ call.args = <<"opening", "opening_stopped">>
  /\ call.ret = "ValueError"

\* the table of section 4.3
toggle_table ==
  [s \in State |->
     CASE s \in {"unknown", "error"} -> "open"
       [] s = "opening" -> "opening_stopped"
       [] s \in {"opening_stopped", "open"} -> "closed"
       [] s = "closing" -> "closing_stopped"
       [] s \in {"closing_stopped", "closed"} -> "open"]

\* C12: toggle_state returns the table's value for each of the eight states
\* and never raises; from open it gives closed, not open, and from there open.
C12_ToggleTable ==
  call.fn = "toggle_state" =>
    /\ call.ret = toggle_table[call.args[1]]
    /\ call.ret \in State
    /\ call.args[1] = "open" =>
         /\ call.ret = "closed"
         /\ call.ret # "open"
         /\ toggle_state(call.ret) = "open"

\* toggle_state has been called with open
C12_Witness ==
  /\ call.fn = "toggle_state"
  /\ call.args = <<"open">>
  /\ call.ret = "closed"

\* the later of two times of day
later(a, b) == IF a > b THEN a ELSE b

\* C13: desired_state returns open exactly when max(sunrise, 06:00) < now <
\* sunset and closed otherwise; it is never open at or before 06:00, and a
\* sunrise at or after 06:00 is used as it is.
C13_DesiredState ==
  call.fn = "desired_state" =>
    LET rise == call.args[1]
        set == call.args[2]
        tod == call.args[3]
    IN  /\ call.ret \in {"open", "closed"}
        /\ call.ret = "open" <=> (later(rise, 360) < tod /\ tod < set)
        /\ tod <= 360 => call.ret = "closed"
        /\ rise >= 360 => (call.ret = "open" <=> (rise < tod /\ tod < set))

\* sunrise 05:30, now 05:59: closed although the sun is up
C13_Witness ==
  /\ call.fn = "desired_state"
  /\ call.args = <<330, 1290, 359>>
  /\ call.ret = "closed"

\* C14: at creation the state is open if the upper sensor is pressed, also
\* when the lower one is pressed too, closed if only the lower sensor is
\* pressed and unknown if neither is; the motor is idle and both start
\* timestamps are unset.
C14_InitialState ==
  last = "init" =>
    /\ upper => door.state = "open"
    /\ (~upper /\ lower) => door.state = "closed"
    /\ (~upper /\ ~lower) => door.state = "unknown"
    /\ ~door.motor.running
    /\ ~door.motor.onoff
    /\ door.opening_started = None
    /\ door.closing_started = None

\* the door has been created with both limit sensors pressed
C14_Witness ==
  /\ last = "init"
  /\ upper
  /\ lower
  /\ door.state = "open"

\* the last operation was a loop iteration after which __set_desired returned
LoopReturned ==
  /\ raised = "none"
  /\ \/ last \in TickOps /\ tick_pc = "sleep"
     \/ last \in {"toggle", "set_desired_toggle"} /\ cb_pc = "idle"

\* C16: when __set_desired called with open or closed returns, the state is
\* that desired state or error, never a moving state and never unknown.
C16_LoopReturnsAtTarget ==
  (LoopReturned /\ arg \in {"open", "closed"}) =>
    /\ door.state \in {arg, "error"}
    /\ ~is_moving(door.state)
    /\ door.state # "unknown"

\* a tick's loop toward open has returned after at least one more iteration,
\* the upper sensor having set the state to open
C16_Witness ==
  /\ last = "set_desired_tick"
  /\ tick_pc = "sleep"
  /\ raised = "none"
  /\ arg = "open"
  /\ door.state = "open"

\* C19: opening_stopped and closing_stopped are never the door's state.
C19_NeverStopped ==
  door.state \notin {"opening_stopped", "closing_stopped"}

\* a press while opening has asked for opening_stopped and the loop has raised
C19_Witness ==
  /\ last = "toggle"
  /\ pre.state = "opening"
  /\ arg = "opening_stopped"
  /\ raised = "ValueError"
  /\ door.state = "opening"

\* C20 as stated: the main thread's loop and the button's loop are never both
\* active with different targets, and no loop iteration turns a door that is
\* opening to closing or one that is closing to opening.
C20_OneLoopAtATime ==
  /\ ~(tick_pc = "loop" /\ cb_pc = "loop" /\ tick_desired # cb_desired)
  /\ ~(/\ last \in LoopOps
       /\ tick_pc = "loop"
       /\ cb_pc = "loop"
       /\ is_moving(pre.state)
       /\ is_moving(door.state)
       /\ pre.state # door.state)

\* the main thread's loop is driving the door toward its target and the limit
\* sensor of that target has asserted: its callback is due
SensorAssertedOnTheWay ==
  /\ tick_pc = "loop"
  /\ \/ tick_desired = "open" /\ door.state = "opening" /\ upper /\ "upper" \in pending
     \/ tick_desired = "closed" /\ door.state = "closing" /\ lower /\ "lower" \in pending

\* the main thread's loop has returned with the door at rest
TraversalEnded ==
  /\ tick_pc = "sleep"
  /\ door.state \in {"open", "closed", "error"}
  /\ ~door.motor.running

\* C18 as stated: once the limit sensor matching the target has asserted while
\* a tick's traversal is moving the door toward it, the traversal ends with
\* the state at the target or error and the motor idle.
C18_TraversalEnds == SensorAssertedOnTheWay ~> TraversalEnded

\* neither thread is inside __set_state
NoApplyInProgress ==
  /\ main_at.pc \notin InSetState
  /\ cb_at.pc \notin InSetState

\* C15 as stated: with the threads interleaved statement by statement,
\* whenever no __set_state is in progress the motor outputs agree with the
\* state and each start timestamp is set exactly in its moving state.
C15_ApplyIsAtomic ==
  NoApplyInProgress =>
    /\ door.motor.running <=> is_moving(door.state)
    /\ door.motor.onoff <=> is_moving(door.state)
    /\ door.motor.direction <=> door.state = "opening"
    /\ door.opening_started # None <=> door.state = "opening"
    /\ door.closing_started # None <=> door.state = "closing"

\* the main thread runs line 177, the assignment to self.state
MainWritesState == main_at.pc = "state" /\ main_at'.pc = "blink"

\* C17 as stated: with the threads interleaved statement by statement, the
\* main thread's traversal toward open never writes opening over an open or
\* error that a handler or the blocked check has set, and its traversal toward
\* closed never writes closing over closed or error.
C17_SensorOverridesTraversal ==
  [][MainWritesState =>
       /\ ~(door.state \in {"open", "error"} /\ door'.state = "opening")
       /\ ~(door.state \in {"closed", "error"} /\ door'.state = "closing")]_vars

====
